---- MODULE Spec2Model ----
(***************************************************************************)
(* A model of the PrimoBoost web application's engineered pieces:          *)
(*   - safeFetch, the retry-with-backoff helper of geminiService           *)
(*   - optimizeLinkedInProfile, the retry loop of the LinkedIn optimizer   *)
(*   - the create-order edge function (coupon checks, order, transaction)  *)
(*   - the AI proxy function (upstream call with an abort timer)           *)
(*   - MockInterviewRoom, the interview-session runner                     *)
(* Each part has its own specification; the variables of the other parts   *)
(* stay at their initial values.                                           *)
(***************************************************************************)
EXTENDS Integers, Sequences, FiniteSets, Bags, TLC

VARIABLES
  \* ---- safeFetch (src/unnamed/part_001) ----
  sfPc,        \* "loop" | "fetching" | "waiting" | "returned" | "thrown"
  retries,     \* let retries = 0
  sfDelay,     \* let delay = INITIAL_RETRY_DELAY_MS
  sfFetches,   \* number of fetch() calls made so far
  sfWaits,     \* the setTimeout delays awaited so far, in order
  sfLog,       \* the outcome of every fetch() so far, in order
  \* ---- optimizeLinkedInProfile (src/unnamed/part_002) ----
  liPc,        \* "loop" | "fetching" | "waiting" | "returned" | "thrown"
  retryCount,  \* let retryCount = 0
  liDelay,     \* let delay = 1000
  liFetches,   \* number of fetch() calls made so far
  liWaits,     \* the setTimeout delays awaited so far, in order
  liLog,       \* the outcome of every fetch() so far, in order
  \* ---- create-order (src/supabase/functions/create-order/index.ts) ----
  ordPc,       \* per invocation: where the handler is
  ordReq,      \* per invocation: the request it serves
  ordResp,     \* per invocation: the response it returned
  paymentTx,   \* rows of table payment_transactions
  ipUsage,     \* rows of table ip_coupon_usage
  rzpOrders,   \* Razorpay orders created, by invocation
  ordPrior,    \* per invocation: the DIWALI orders already accepted when it arrived
  \* ---- AI proxy function (src/unnamed/part_000) ----
  pxPc,        \* "idle" | "fetching" | "reading" | "done"
  pxReq,       \* the request the handler serves
  pxUpstream,  \* what the upstream fetch settled with
  pxClock,     \* seconds since the fetch was issued
  pxTimer,     \* the abort timer: "none" | "armed" | "cleared" | "fired"
  pxAborted,   \* controller.signal.aborted
  pxStatus,    \* statusCode of the handler's answer
  \* ---- MockInterviewRoom (src/unnamed/part_004) ----
  room,        \* the component, its refs, the services it drives, the session row
  \* ---- LinkedInProfileOptimizer (src/src/components/LinkedInProfileOptimizer.tsx) ----
  optimizer    \* the component, its runs of handleOptimizeProfile, the credits on the server

sfVars == <<sfPc, retries, sfDelay, sfFetches, sfWaits, sfLog>>
liVars == <<liPc, retryCount, liDelay, liFetches, liWaits, liLog>>
ordVars == <<ordPc, ordReq, ordResp, paymentTx, ipUsage, rzpOrders, ordPrior>>
pxVars == <<pxPc, pxReq, pxUpstream, pxClock, pxTimer, pxAborted, pxStatus>>
vars == <<sfVars, liVars, ordVars, pxVars, room, optimizer>>

----------------------------------------------------------------------------
(***************************************************************************)
(* safeFetch                                                               *)
(***************************************************************************)
MAX_RETRIES == 3
INITIAL_RETRY_DELAY_MS == 1000

\* HTTP statuses the upstream may answer with.
SfStatuses == {200, 400, 401, 402, 404, 429, 500, 503}

\* What one fetch() can produce.  An HTTP response carries its status and
\* whether the error body is JSON whose error.message contains the text
\* 'Failed to fetch' or 'NetworkError' (netText); a rejected fetch carries
\* the message of the rejection.
SfResponses ==
  [kind : {"http"}, status : SfStatuses \ {200}, netText : BOOLEAN]
    \cup {[kind |-> "http", status |-> 200, netText |-> FALSE]}
    \cup [kind : {"reject"}, status : {0}, netText : BOOLEAN]

\* res.ok
SfOk(r) == r.kind = "http" /\ r.status >= 200 /\ r.status < 300

\* res.status === 429 || res.status >= 500
SfIsRetryStatus(s) == s = 429 \/ s >= 500

\* err.message.includes('Failed to fetch') || err.message.includes('NetworkError').
\* Every error thrown in the try block embeds msg, which is the body's
\* error.message when the body is JSON, so the body's text decides as well.
SfIsNetworkError(r) == r.netText

\* (a budget test that is off by one: retries > maxRetries)
SfBudgetExhaustedOff(r) == r > MAX_RETRIES
\* retries >= maxRetries, tested after retries++.
SfBudgetExhausted(r) == r >= MAX_RETRIES

SfInit ==
  /\ sfPc = "loop"
  /\ retries = 0
  /\ sfDelay = INITIAL_RETRY_DELAY_MS
  /\ sfFetches = 0
  /\ sfWaits = <<>>
  /\ sfLog = <<>>

\* while (retries < maxRetries) { ... fetch(...) }, else the closing throw.
SfLoop ==
  /\ sfPc = "loop"
  /\ IF retries < MAX_RETRIES
       THEN /\ sfPc' = "fetching"
            /\ sfFetches' = sfFetches + 1
       ELSE /\ sfPc' = "thrown"
            /\ sfFetches' = sfFetches
  /\ UNCHANGED <<retries, sfDelay, sfWaits, sfLog>>
  /\ UNCHANGED <<liVars, ordVars, pxVars, room, optimizer>>

\* The catch block (lines 61-67), entered with an error whose message does
\* (net) or does not contain the network text, with `r` retries so far.
SfCatch(net, r) ==
  IF net
    THEN IF SfBudgetExhausted(r + 1)
           THEN /\ retries' = r + 1
                /\ sfPc' = "thrown"
                /\ UNCHANGED sfWaits
           ELSE /\ retries' = r + 1
                /\ sfPc' = "waiting"
                /\ sfWaits' = Append(sfWaits, sfDelay)
    ELSE /\ retries' = r
         /\ sfPc' = "thrown"
         /\ UNCHANGED sfWaits

\* The fetch settles with `resp`: lines 43-67 up to the next await.
SfRespond(resp) ==
  /\ sfPc = "fetching"
  /\ sfLog' = Append(sfLog, resp)
  /\ IF resp.kind = "reject"
       THEN SfCatch(SfIsNetworkError(resp), retries)
       ELSE IF SfOk(resp)
         THEN /\ sfPc' = "returned"
              /\ UNCHANGED <<retries, sfWaits>>
         ELSE IF resp.status \in {400, 401, 402}
           THEN SfCatch(SfIsNetworkError(resp), retries)
           ELSE IF SfIsRetryStatus(resp.status)
             THEN IF SfBudgetExhausted(retries + 1)
                    \* throw new Error(`Failed after ... retries: ${msg}`),
                    \* which the catch block sees as well
                    THEN SfCatch(SfIsNetworkError(resp), retries + 1)
                    ELSE /\ retries' = retries + 1
                         /\ sfPc' = "waiting"
                         /\ sfWaits' = Append(sfWaits, sfDelay)
             ELSE SfCatch(SfIsNetworkError(resp), retries)
  /\ UNCHANGED <<sfDelay, sfFetches>>
  /\ UNCHANGED <<liVars, ordVars, pxVars, room, optimizer>>

\* The backoff timer elapses: delay *= 2; continue.
SfWaitDone ==
  /\ sfPc = "waiting"
  /\ sfDelay' = sfDelay * 2
  /\ sfPc' = "loop"
  /\ UNCHANGED <<retries, sfFetches, sfWaits, sfLog>>
  /\ UNCHANGED <<liVars, ordVars, pxVars, room, optimizer>>

SfNext ==
  \/ SfLoop
  \/ \E resp \in SfResponses : SfRespond(resp)
  \/ SfWaitDone

----------------------------------------------------------------------------
(***************************************************************************)
(* optimizeLinkedInProfile                                                 *)
(***************************************************************************)
LiMaxRetries == 3
LiInitialDelay == 1000

LiStatuses == {200, 400, 401, 403, 429, 500, 503}

\* What one fetch() can produce.  For a response that is not ok, `text`
\* says whether errorText contains one of 'API key', 'Rate limit',
\* 'service is temporarily unavailable' ("keyed") or none ("plain").  For a
\* 200, `body` is what the completion holds.
LiResponses ==
  [kind : {"http"}, status : LiStatuses \ {200}, text : {"plain", "keyed"},
   body : {"none"}]
    \cup [kind : {"http"}, status : {200}, text : {"plain"},
          body : {"valid", "noContent", "badJson"}]
    \cup {[kind |-> "reject", status |-> 0, text |-> "plain", body |-> "none"]}

LiIsRetryStatus(s) == s = 429 \/ s >= 500

LiInit ==
  /\ liPc = "loop"
  /\ retryCount = 0
  /\ liDelay = LiInitialDelay
  /\ liFetches = 0
  /\ liWaits = <<>>
  /\ liLog = <<>>

\* while (retryCount < maxRetries) { fetch ... }, else the closing throw.
LiLoop ==
  /\ liPc = "loop"
  /\ IF retryCount < LiMaxRetries
       THEN /\ liPc' = "fetching"
            /\ liFetches' = liFetches + 1
       ELSE /\ liPc' = "thrown"
            /\ liFetches' = liFetches
  /\ UNCHANGED <<retryCount, liDelay, liWaits, liLog>>
  /\ UNCHANGED <<sfVars, ordVars, pxVars, room, optimizer>>

\* The catch block (lines 211-229); `keyed` says whether the message
\* contains 'API key', 'Rate limit' or 'service is temporarily unavailable'.
LiCatch(keyed) ==
  IF keyed
    THEN /\ liPc' = "thrown"
         /\ UNCHANGED <<retryCount, liWaits>>
    ELSE IF retryCount = LiMaxRetries - 1
      THEN /\ liPc' = "thrown"
           /\ UNCHANGED <<retryCount, liWaits>>
      ELSE /\ retryCount' = retryCount + 1
           /\ liPc' = "waiting"
           /\ liWaits' = Append(liWaits, liDelay)

\* The 429 / 5xx branch (lines 138-143): retryCount++, wait, delay *= 2.
LiRetryInPlace ==
  /\ retryCount' = retryCount + 1
  /\ liPc' = "waiting"
  /\ liWaits' = Append(liWaits, liDelay)

\* The fetch settles with `resp`: lines 113-229 up to the next await.
LiRespond(resp) ==
  /\ liPc = "fetching"
  /\ liLog' = Append(liLog, resp)
  /\ IF resp.kind = "reject"
       THEN LiCatch(FALSE)
       ELSE IF resp.status = 200
         THEN IF resp.body = "valid"
                THEN /\ liPc' = "returned"
                     /\ UNCHANGED <<retryCount, liWaits>>
                \* 'No response content from OpenRouter API' /
                \* 'Invalid JSON response from AI. Please try again.'
                ELSE LiCatch(FALSE)
         ELSE IF resp.status = 401
           \* 'Invalid API key. ...' contains 'API key'
           THEN LiCatch(TRUE)
           ELSE IF LiIsRetryStatus(resp.status)
             THEN LiRetryInPlace
             \* `OpenRouter API error: ${status} - ${errorText}`
             ELSE LiCatch(resp.text = "keyed")
  /\ UNCHANGED <<liDelay, liFetches>>
  /\ UNCHANGED <<sfVars, ordVars, pxVars, room, optimizer>>

\* The backoff timer elapses: delay *= 2, and the loop goes round.
LiWaitDone ==
  /\ liPc = "waiting"
  /\ liDelay' = liDelay * 2
  /\ liPc' = "loop"
  /\ UNCHANGED <<retryCount, liFetches, liWaits, liLog>>
  /\ UNCHANGED <<sfVars, ordVars, pxVars, room, optimizer>>

LiNext ==
  \/ LiLoop
  \/ \E resp \in LiResponses : LiRespond(resp)
  \/ LiWaitDone

----------------------------------------------------------------------------
(***************************************************************************)
(* create-order: one handler run per HTTP request.  Invocations share no   *)
(* in-process state; they meet only in the database and at Razorpay.  A    *)
(* step is everything the handler does up to and including one awaited     *)
(* call on a shared service.                                               *)
(***************************************************************************)
NumRequests == 2
Invocations == 1 .. NumRequests

OrdUsers == {"u1", "u2"}
OrdCoupons == {"", "DIWALI", "diwali", "SAVE10"}

\* couponCode.toLowerCase()
ToLowerCase(c) ==
  CASE c = "DIWALI" -> "diwali"
    [] c = "diwali" -> "diwali"
    [] c = "SAVE10" -> "save10"
    [] OTHER -> c

\* The requests the function may receive.  `kind` is what the early checks
\* see: an OPTIONS preflight, a body without planId/amount, no authorization
\* header, a token that resolves to no user, or a well-formed request.
OrdRequests ==
  [kind : {"options", "missingFields", "noAuth", "badToken"},
   user : {"u1"}, coupon : {""}, xff : {""}, xreal : {""}]
    \cup [kind : {"ok"}, user : OrdUsers, coupon : OrdCoupons,
          xff : {"ipA", "ipB"}, xreal : {""}]
    \cup [kind : {"ok"}, user : OrdUsers, coupon : OrdCoupons,
          xff : {""}, xreal : {"", "ipA"}]

NoRequest == [kind |-> "none", user |-> "", coupon |-> "", xff |-> "", xreal |-> ""]
NoResponse == [status |-> 0, error |-> ""]

\* req.headers.get('x-forwarded-for') || req.headers.get('x-real-ip') || '0.0.0.0'
ClientIP(req) ==
  IF req.xff # "" THEN req.xff
  ELSE IF req.xreal # "" THEN req.xreal
  ELSE "0.0.0.0"

\* .from('payment_transactions').select(count).eq(user_id).eq(coupon_code,
\*   couponCode.toLowerCase()).in('status', ['success', 'pending'])
CouponUseCount(user, coupon) ==
  Cardinality({t \in paymentTx : /\ t.user = user
                                 /\ t.coupon = ToLowerCase(coupon)
                                 /\ t.status \in {"success", "pending"}})

\* .from('ip_coupon_usage').select(count).eq(ip_address).eq(coupon_code, 'diwali')
IpUseCount(ip) ==
  Cardinality({u \in ipUsage : u.ip = ip /\ u.coupon = "diwali"})

OrdInit ==
  /\ ordPc = [i \in Invocations |-> "idle"]
  /\ ordReq = [i \in Invocations |-> NoRequest]
  /\ ordResp = [i \in Invocations |-> NoResponse]
  /\ paymentTx = {}
  /\ ipUsage = {}
  /\ rzpOrders = {}
  /\ ordPrior = [i \in Invocations |-> {}]

OrdFinish(i, status, error) ==
  /\ ordPc' = [ordPc EXCEPT ![i] = "done"]
  /\ ordResp' = [ordResp EXCEPT ![i] = [status |-> status, error |-> error]]

\* The invocations that have answered 200 to a request carrying the DIWALI
\* coupon (lines 171, 190-202).
AcceptedDiwali ==
  {j \in Invocations : /\ ordPc[j] = "done"
                        /\ ordResp[j].status = 200
                        /\ ToLowerCase(ordReq[j].coupon) = "diwali"}

\* A handler that creates the Razorpay order before it looks at the token.
OrdReceiveActsFirst(i, req) ==
  /\ ordPc[i] = "idle"
  /\ ordReq' = [ordReq EXCEPT ![i] = req]
  /\ ordPrior' = [ordPrior EXCEPT ![i] = AcceptedDiwali]
  /\ CASE req.kind = "options" -> OrdFinish(i, 200, "ok") /\ UNCHANGED rzpOrders
       [] req.kind = "missingFields" ->
            OrdFinish(i, 400, "missingFields") /\ UNCHANGED rzpOrders
       [] req.kind = "noAuth" -> OrdFinish(i, 400, "noAuth") /\ UNCHANGED rzpOrders
       [] req.kind = "badToken" ->
            OrdFinish(i, 400, "badToken") /\ rzpOrders' = rzpOrders \cup {i}
       [] OTHER ->
            /\ ordPc' = [ordPc EXCEPT ![i] =
                           IF req.coupon # "" THEN "couponCheck" ELSE "razorpay"]
            /\ UNCHANGED <<ordResp, rzpOrders>>
  /\ UNCHANGED <<paymentTx, ipUsage>>
  /\ UNCHANGED <<sfVars, liVars, pxVars, room, optimizer>>

\* Lines 21-53: the preflight answer, the body and authorization checks and
\* supabase.auth.getUser; then on to the coupon check or straight to Razorpay.
OrdReceive(i, req) ==
  /\ ordPc[i] = "idle"
  /\ ordReq' = [ordReq EXCEPT ![i] = req]
  /\ ordPrior' = [ordPrior EXCEPT ![i] = AcceptedDiwali]
  /\ CASE req.kind = "options" -> OrdFinish(i, 200, "ok")
       [] req.kind = "missingFields" -> OrdFinish(i, 400, "missingFields")
       [] req.kind = "noAuth" -> OrdFinish(i, 400, "noAuth")
       [] req.kind = "badToken" -> OrdFinish(i, 400, "badToken")
       [] OTHER ->
            /\ ordPc' = [ordPc EXCEPT ![i] =
                           IF req.coupon # "" THEN "couponCheck" ELSE "razorpay"]
            /\ UNCHANGED ordResp
  /\ UNCHANGED <<paymentTx, ipUsage, rzpOrders>>
  /\ UNCHANGED <<sfVars, liVars, pxVars, room, optimizer>>

\* Lines 57-77: the per-user usage query and its verdict.  dbError: the
\* query itself failed.
OrdCouponCheck(i, dbError) ==
  /\ ordPc[i] = "couponCheck"
  /\ IF dbError
       THEN OrdFinish(i, 400, "couponQueryFailed")
       ELSE IF CouponUseCount(ordReq[i].user, ordReq[i].coupon) > 0
         THEN OrdFinish(i, 400, "alreadyUsed")
         ELSE /\ ordPc' = [ordPc EXCEPT ![i] =
                   IF ToLowerCase(ordReq[i].coupon) = "diwali"
                     THEN "ipCheck" ELSE "razorpay"]
              /\ UNCHANGED ordResp
  /\ UNCHANGED <<ordReq, ordPrior, paymentTx, ipUsage, rzpOrders>>
  /\ UNCHANGED <<sfVars, liVars, pxVars, room, optimizer>>

\* Lines 80-95: the per-IP usage query for DIWALI.  A failed query is logged
\* and the request goes on.
OrdIpCheck(i, dbError) ==
  /\ ordPc[i] = "ipCheck"
  /\ IF ~dbError /\ IpUseCount(ClientIP(ordReq[i])) > 0
       THEN OrdFinish(i, 400, "ipClaimed")
       ELSE /\ ordPc' = [ordPc EXCEPT ![i] = "razorpay"]
            /\ UNCHANGED ordResp
  /\ UNCHANGED <<ordReq, ordPrior, paymentTx, ipUsage, rzpOrders>>
  /\ UNCHANGED <<sfVars, liVars, pxVars, room, optimizer>>

\* Lines 100-122: razorpay.orders.create.
OrdRazorpay(i, fails) ==
  /\ ordPc[i] = "razorpay"
  /\ IF fails
       THEN /\ OrdFinish(i, 400, "razorpayFailed")
            /\ UNCHANGED rzpOrders
       ELSE /\ rzpOrders' = rzpOrders \cup {i}
            /\ ordPc' = [ordPc EXCEPT ![i] = "insertTx"]
            /\ UNCHANGED ordResp
  /\ UNCHANGED <<ordReq, ordPrior, paymentTx, ipUsage>>
  /\ UNCHANGED <<sfVars, liVars, pxVars, room, optimizer>>

\* Lines 144-168: the pending payment_transactions row; then either the IP
\* record (DIWALI) or the 200 response.
OrdInsertTx(i, dbError) ==
  /\ ordPc[i] = "insertTx"
  /\ IF dbError
       THEN /\ OrdFinish(i, 400, "txInsertFailed")
            /\ UNCHANGED paymentTx
       ELSE /\ paymentTx' = paymentTx \cup
                 {[inv |-> i, user |-> ordReq[i].user,
                   coupon |-> ToLowerCase(ordReq[i].coupon),
                   status |-> "pending"]}
            /\ IF ToLowerCase(ordReq[i].coupon) = "diwali"
                 THEN /\ ordPc' = [ordPc EXCEPT ![i] = "insertIp"]
                      /\ UNCHANGED ordResp
                 ELSE OrdFinish(i, 200, "")
  /\ UNCHANGED <<ordReq, ordPrior, ipUsage, rzpOrders>>
  /\ UNCHANGED <<sfVars, liVars, pxVars, room, optimizer>>

\* Lines 171-202: the ip_coupon_usage row (a failure is only logged) and the
\* 200 response.
OrdInsertIp(i, dbError) ==
  /\ ordPc[i] = "insertIp"
  /\ ipUsage' = IF dbError THEN ipUsage
                ELSE ipUsage \cup {[inv |-> i, ip |-> ClientIP(ordReq[i]),
                                     coupon |-> "diwali",
                                     user |-> ordReq[i].user]}
  /\ OrdFinish(i, 200, "")
  /\ UNCHANGED <<ordReq, ordPrior, paymentTx, rzpOrders>>
  /\ UNCHANGED <<sfVars, liVars, pxVars, room, optimizer>>

OrdNext ==
  \/ \E i \in Invocations, req \in OrdRequests : OrdReceive(i, req)
  \/ \E i \in Invocations, e \in BOOLEAN : OrdCouponCheck(i, e)
  \/ \E i \in Invocations, e \in BOOLEAN : OrdIpCheck(i, e)
  \/ \E i \in Invocations, e \in BOOLEAN : OrdRazorpay(i, e)
  \/ \E i \in Invocations, e \in BOOLEAN : OrdInsertTx(i, e)
  \/ \E i \in Invocations, e \in BOOLEAN : OrdInsertIp(i, e)

----------------------------------------------------------------------------
(***************************************************************************)
(* The AI proxy function (src/unnamed/part_000): one handler run.  Time is *)
(* counted in seconds from the moment the upstream fetch is issued.        *)
(***************************************************************************)
MaxClock == 32

\* setTimeout(() => controller.abort(), 30000)
TimeoutSeconds == 30

\* event.httpMethod, whether AGENTROUTER_API_KEY is set, and event.body:
\* a body with a messages array, one without (an empty body, an object or
\* any other JSON value that can be destructured), the JSON text null, or
\* text that is not JSON.
PxRequests ==
  [method : {"OPTIONS", "GET", "POST"}, apiKey : BOOLEAN,
   body : {"ok", "noMessages", "nullJson", "badJson"}]

\* What the upstream fetch settles with: a response (status, and whether its
\* body parses as JSON) or a network failure.
PxUpstreams ==
  [kind : {"response"}, status : {200, 401, 429, 500}, json : BOOLEAN]
    \cup [kind : {"networkError"}, status : {0}, json : {FALSE}]

NoPxRequest == [method |-> "", apiKey |-> FALSE, body |-> ""]
NoUpstream == [kind |-> "none", status |-> 0, json |-> FALSE]

\* response.ok
PxOk(status) == status >= 200 /\ status <= 299

\* A variant of clearTimeout that leaves the timer armed.
ClearTimeoutOff(t) == t

\* clearTimeout(timeout)
ClearTimeout(t) == IF t = "armed" THEN "cleared" ELSE t

PxInit ==
  /\ pxPc = "idle"
  /\ pxReq = NoPxRequest
  /\ pxUpstream = NoUpstream
  /\ pxClock = 0
  /\ pxTimer = "none"
  /\ pxAborted = FALSE
  /\ pxStatus = 0

PxReturn(status) ==
  /\ pxPc' = "done"
  /\ pxStatus' = status

\* Lines 13-79: the early answers, JSON.parse, the messages test, then the
\* controller, the timer and the fetch call.  JSON.parse throws on text
\* that is not JSON, and destructuring the parsed value throws when it is
\* null; both land in the outer catch (502).
PxReceive(req) ==
  /\ pxPc = "idle"
  /\ pxReq' = req
  /\ CASE req.method = "OPTIONS" -> PxReturn(204) /\ UNCHANGED pxTimer
       [] req.method # "POST" -> PxReturn(405) /\ UNCHANGED pxTimer
       [] ~req.apiKey -> PxReturn(500) /\ UNCHANGED pxTimer
       [] req.body \in {"badJson", "nullJson"} -> PxReturn(502) /\ UNCHANGED pxTimer
       [] req.body = "noMessages" -> PxReturn(400) /\ UNCHANGED pxTimer
       [] OTHER -> /\ pxPc' = "fetching"
                   /\ pxTimer' = "armed"
                   /\ UNCHANGED pxStatus
  /\ UNCHANGED <<pxUpstream, pxClock, pxAborted>>
  /\ UNCHANGED <<sfVars, liVars, ordVars, room, optimizer>>

\* One second passes while the handler waits for the upstream.  An armed
\* timer fires when its delay has elapsed: time does not pass it by.
PxTick ==
  /\ pxPc \in {"fetching", "reading"}
  /\ pxClock < MaxClock
  /\ ~(pxTimer = "armed" /\ pxClock >= TimeoutSeconds)
  /\ pxClock' = pxClock + 1
  /\ UNCHANGED <<pxPc, pxReq, pxUpstream, pxTimer, pxAborted, pxStatus>>
  /\ UNCHANGED <<sfVars, liVars, ordVars, room, optimizer>>

\* Line 62: the timer callback, controller.abort().
PxTimerFires ==
  /\ pxTimer = "armed"
  /\ pxClock >= TimeoutSeconds
  /\ pxTimer' = "fired"
  /\ pxAborted' = TRUE
  /\ UNCHANGED <<pxPc, pxReq, pxUpstream, pxClock, pxStatus>>
  /\ UNCHANGED <<sfVars, liVars, ordVars, room, optimizer>>

\* Lines 65-81 and 105-117: the fetch settles.  With the signal aborted it
\* rejects with an AbortError (504); a network failure is rethrown to the
\* outer catch (502); a response clears the timer and its body is read.
PxFetchSettles(up) ==
  /\ pxPc = "fetching"
  /\ pxTimer' = ClearTimeout(pxTimer)
  /\ IF pxAborted
       THEN PxReturn(504) /\ UNCHANGED pxUpstream
       ELSE /\ pxUpstream' = up
            /\ IF up.kind = "networkError"
                 THEN PxReturn(502)
                 ELSE pxPc' = "reading" /\ UNCHANGED pxStatus
  /\ UNCHANGED <<pxReq, pxClock, pxAborted>>
  /\ UNCHANGED <<sfVars, liVars, ordVars, room, optimizer>>

\* Lines 83-117: response.json() settles.  A body cut off by an abort
\* rejects with an AbortError (504); a body that is not JSON throws to the
\* outer catch (502); otherwise the upstream status is passed on.
PxBodyRead ==
  /\ pxPc = "reading"
  /\ IF pxAborted
       THEN PxReturn(504) /\ pxTimer' = ClearTimeout(pxTimer)
       ELSE IF ~pxUpstream.json
         THEN PxReturn(502) /\ pxTimer' = ClearTimeout(pxTimer)
         ELSE /\ PxReturn(IF PxOk(pxUpstream.status) THEN 200
                          ELSE pxUpstream.status)
              /\ UNCHANGED pxTimer
  /\ UNCHANGED <<pxReq, pxUpstream, pxClock, pxAborted>>
  /\ UNCHANGED <<sfVars, liVars, ordVars, room, optimizer>>

PxNext ==
  \/ \E req \in PxRequests : PxReceive(req)
  \/ PxTick
  \/ PxTimerFires
  \/ \E up \in PxUpstreams : PxFetchSettles(up)
  \/ PxBodyRead

----------------------------------------------------------------------------
(***************************************************************************)
(* MockInterviewRoom (src/unnamed/part_004).  The component's React state, *)
(* refs, the services it drives and the session row live in one record,    *)
(* room; every handler is an operator from room records to room records,   *)
(* so that a handler calling another is operator application.  A pending   *)
(* await or timer is a task in room.tasks that carries what the closure    *)
(* which created it captured.                                              *)
(***************************************************************************)
NumQuestions == 2
InitialTime == 2
MaxPending == 2
MaxStartClicks == 1
\* how many times the candidate or the browser disturbs the run: a skip, a
\* pause-button click, a violation, a confirmed End
MaxEvents == 2
SpeechBurst == 30
MaxSpeech == 30
\* minimumSpeechDuration grows by 0.1 per speech callback and is compared
\* with 3; in IEEE doubles the 30th addition gives 3.0000000000000013, so
\* the test passes from 30 callbacks on.  The model counts callbacks.
MinSpeechCallbacks == 30
SilenceLimit == 10
DetectorKeepsInit == BOOLEAN
ViolationKinds == {"tab", "fullscreen"}
AnswerOutcomes == {"saved", "saveError", "throws"}
SkipOutcomes == BOOLEAN
SilenceReadings == {0, SilenceLimit - 1, SilenceLimit}

Stages == {"loading", "ready", "question", "listening", "processing",
           "feedback", "completed"}
NoViolations == [tab |-> 0, away |-> 0, fs |-> 0]
NoAutoSubmit == [stage |-> "none", paused |-> FALSE, speech |-> 0, silence |-> 0]

\* What the handlers of one render capture of the state that changes.
Closure(s) ==
  [idx |-> s.currentQuestionIndex, spoke |-> s.hasStartedSpeaking, vio |-> s.vio]
Task(kind, c) == [kind |-> kind, idx |-> c.idx, spoke |-> c.spoke, vio |-> c.vio]
Spawn(s, kind, c) == [s EXCEPT !.tasks = @ (+) SetToBag({Task(kind, c)})]
Retire(s, t) == [s EXCEPT !.tasks = @ (-) SetToBag({t})]
Pending(s) == BagCardinality(s.tasks)
TasksOf(s, kind) == {t \in BagToSet(s.tasks) : t.kind = kind}
PendingOf(s, kind) ==
  LET ts == TasksOf(s, kind)
  IN IF ts = {} THEN 0 ELSE BagCardinality([t \in ts |-> CopiesIn(t, s.tasks)])

Questions == 0 .. NumQuestions - 1
HasQuestion(s, idx) == idx < s.questionsLen
Event(s) == [s EXCEPT !.events = @ + 1]
\* a countdown interval that no stage change and no pause clears
TimerIntervalAlways(s) == ~s.left
TimerIntervalActive(s) == ~s.left /\ s.stage = "listening" /\ ~s.isPaused
SilenceIntervalActive(s) == ~s.left /\ s.stage = "listening" /\ ~s.isPaused

RoomInit ==
  room = [stage |-> "loading", session |-> FALSE, questionsLen |-> 0,
          currentQuestionIndex |-> 0, timeRemaining |-> InitialTime,
          isPaused |-> FALSE, isRecording |-> FALSE,
          isMicrophoneEnabled |-> FALSE, showViolationWarning |-> FALSE,
          isSkipping |-> FALSE, autoSubmitted |-> FALSE,
          hasStartedSpeaking |-> FALSE, minimumSpeechDuration |-> 0,
          mediaRecorder |-> "none", orphanRecorder |-> FALSE,
          videoStream |-> "none", autoSubmitTriggered |-> FALSE,
          recognizing |-> FALSE, detInit |-> FALSE, detRunning |-> FALSE,
          detSpoke |-> FALSE, isFullScreen |-> FALSE, vio |-> NoViolations,
          sessionStatus |-> "none", sessionVio |-> NoViolations,
          statusLog |-> <<>>, responses |-> [q \in Questions |-> 0],
          onBackCalls |-> 0, onCompleteCalls |-> 0, left |-> FALSE,
          initAlert |-> FALSE,
          tasks |-> SetToBag({Task("createSession", [idx |-> 0, spoke |-> FALSE,
                                                     vio |-> NoViolations])}),
          events |-> 0, speechHere |-> 0, autoQs |-> {}, autoTwice |-> {},
          lastAuto |-> NoAutoSubmit, vioAtCompletion |-> NoViolations]

\* cleanup(): the first statement stops the recorder without looking at its
\* state; MediaRecorder.stop() on an inactive recorder raises
\* InvalidStateError on some browsers and is ignored on others.
CleanupThrows(s, stopThrows) == s.mediaRecorder = "inactive" /\ stopThrows
Cleanup(s) ==
  [s EXCEPT !.mediaRecorder = IF @ = "none" THEN "none" ELSE "inactive",
            !.videoStream = IF @ = "none" THEN "none" ELSE "stopped",
            !.detInit = FALSE, !.detRunning = FALSE, !.recognizing = FALSE]

\* The parent drops the room when onBack or onInterviewComplete is called;
\* the mount effect's clean-up then runs cleanup() and React clears the
\* effects' intervals.
Unmount(s, stopThrows) ==
  IF s.left THEN s
  ELSE LET u == [s EXCEPT !.left = TRUE]
       IN IF CleanupThrows(u, stopThrows) THEN u ELSE Cleanup(u)
OnBack(s, stopThrows) == Unmount([s EXCEPT !.onBackCalls = @ + 1], stopThrows)
OnInterviewComplete(s, stopThrows) ==
  Unmount([s EXCEPT !.onCompleteCalls = @ + 1], stopThrows)

StopRecorder(s) ==
  IF s.mediaRecorder = "recording"
  THEN [s EXCEPT !.mediaRecorder = "inactive", !.isRecording = FALSE]
  ELSE s
\* speechActivityDetector.stop(): whether the detector still answers
\* isInitialized() afterwards is the service's business; both are modelled.
StopDetector(s, keepsInit) ==
  [s EXCEPT !.detRunning = FALSE, !.detInit = @ /\ keepsInit]

CompleteInterview(s, c) ==
  LET d == [s EXCEPT !.stage = "completed", !.vioAtCompletion = s.vio]
  IN IF d.session THEN Spawn(d, "complete", c) ELSE d

MoveToNextQuestion(s, c) ==
  LET r == [s EXCEPT !.recognizing = FALSE]
  IN IF c.idx + 1 < r.questionsLen
     THEN Spawn([r EXCEPT !.currentQuestionIndex = @ + 1, !.stage = "question"],
                "listenTimer", c)
     ELSE CompleteInterview(r, c)

ProcessAnswer(s, c) ==
  IF ~s.session \/ ~HasQuestion(s, c.idx) THEN s ELSE Spawn(s, "processAnswer", c)

StopListening(s, c, keepsInit) ==
  ProcessAnswer([StopDetector(StopRecorder(s), keepsInit)
                   EXCEPT !.recognizing = FALSE, !.stage = "processing"], c)

\* a pause that also threw the answer into processing: what the stage
\* property of the room has to tell apart from the handler below
HandlePauseInterviewAndStop(s) ==
  [s EXCEPT !.isPaused = TRUE, !.stage = "processing"]

HandlePauseInterview(s) ==
  [s EXCEPT !.isPaused = TRUE,
            !.recognizing = IF s.stage = "listening" THEN FALSE ELSE @]

\* a resume that leaves the violation overlay up
HandleResumeKeepsWarning(s) ==
  [s EXCEPT !.isPaused = FALSE, !.isFullScreen = TRUE]

HandleResumeInterview(s) ==
  [s EXCEPT !.isPaused = FALSE, !.showViolationWarning = FALSE,
            !.isFullScreen = TRUE]

\* The rest of handleEndInterview once the status update has resolved.
EndFinish(s, stopThrows) ==
  IF CleanupThrows(s, stopThrows) THEN s
  ELSE OnBack([Cleanup(s) EXCEPT !.isFullScreen = FALSE], stopThrows)

HandleEndInterview(s, confirmed) ==
  IF ~confirmed THEN s
  ELSE IF s.session THEN Spawn(s, "endInterview", Closure(s))
       ELSE EndFinish(s, FALSE)

\* React drops state updates of an unmounted component.
ReactState ==
  {"stage", "session", "questionsLen", "currentQuestionIndex", "timeRemaining",
   "isPaused", "isRecording", "isMicrophoneEnabled", "showViolationWarning",
   "isSkipping", "autoSubmitted", "hasStartedSpeaking", "minimumSpeechDuration"}
Commit(s) ==
  /\ room' = IF room.left
             THEN [f \in DOMAIN s |-> IF f \in ReactState THEN room[f] ELSE s[f]]
             ELSE s
  /\ UNCHANGED <<sfVars, liVars, ordVars, pxVars, optimizer>>

InRoom == ~room.left /\ room.stage \notin {"loading", "ready"}
AnswerButtons ==
  /\ ~room.left
  /\ room.stage = "listening"
  /\ HasQuestion(room, room.currentQuestionIndex)
  /\ ~room.showViolationWarning
  /\ Pending(room) < MaxPending

\* an initialization whose failure is swallowed
InitFailureGoesOn(s) == [s EXCEPT !.stage = "ready"]

\* initializeInterview's catch block: console.error, alert('Failed to
\* initialize interview: ...'), onBack()
InitFailure(s) == OnBack([s EXCEPT !.initAlert = TRUE], FALSE)

CreateSessionDone ==
  \E t \in TasksOf(room, "createSession"), ok \in BOOLEAN :
    LET s == Retire(room, t)
    IN Commit(IF ok
              THEN Spawn([s EXCEPT !.session = TRUE, !.sessionStatus = "in_progress"],
                         "loadQuestions", t)
              ELSE InitFailure(s))

LoadQuestionsDone ==
  \E t \in TasksOf(room, "loadQuestions"), outcome \in {"ok", "empty", "throws"} :
    LET s == Retire(room, t)
    IN Commit(IF outcome = "ok"
              THEN Spawn([s EXCEPT !.questionsLen = NumQuestions], "getUserMedia", t)
              ELSE InitFailure(s))

RequestMediaPermissionsDone ==
  \E t \in TasksOf(room, "getUserMedia"), granted \in BOOLEAN :
    LET s == Retire(room, t)
    IN Commit([s EXCEPT !.videoStream = IF granted THEN "live" ELSE @,
                        !.isMicrophoneEnabled = granted,
                        !.stage = "ready"])

StartQuestionClick ==
  /\ ~room.left
  /\ room.stage = "ready"
  /\ Pending(room) < MaxPending
  /\ PendingOf(room, "requestFullScreen") < MaxStartClicks
  /\ Commit(Spawn(room, "requestFullScreen", Closure(room)))

StartQuestion ==
  \E t \in TasksOf(room, "requestFullScreen") :
    LET s == Retire(room, t)
    IN Commit(Spawn([s EXCEPT !.isFullScreen = TRUE, !.stage = "question"],
                    "listenTimer", t))

\* A recorder that starts whether or not a microphone stream exists.
CanRecordAlways(s) == TRUE

\* isMicrophoneEnabled && videoStreamRef.current
CanRecord(s) == s.isMicrophoneEnabled /\ s.videoStream # "none"

\* startListening up to its first await
StartListening ==
  \E t \in TasksOf(room, "listenTimer"), recorderFails \in BOOLEAN :
    /\ recorderFails => room.videoStream = "stopped"
    /\ LET s == [Retire(room, t) EXCEPT !.stage = "listening", !.speechHere = 0]
           r == IF CanRecord(s) /\ ~recorderFails
                THEN [s EXCEPT !.orphanRecorder = @ \/ s.mediaRecorder = "recording",
                               !.mediaRecorder = "recording",
                               !.isRecording = TRUE]
                ELSE s
       IN Commit(Spawn([r EXCEPT !.recognizing = TRUE], "listenAwait", t))

\* startListening after its awaits: the detector starts with the callback
\* of the closure, and only then are the per-question flags reset
StartListeningResumed ==
  \E t \in TasksOf(room, "listenAwait"), initFails \in BOOLEAN :
    /\ initFails => room.videoStream = "stopped"
    /\ LET s == Retire(room, t)
           d == IF s.videoStream # "none" /\ ~initFails
                THEN [s EXCEPT !.detInit = TRUE, !.detRunning = TRUE,
                               !.detSpoke = t.spoke]
                ELSE s
       IN Commit([d EXCEPT !.autoSubmitTriggered = FALSE,
                           !.autoSubmitted = FALSE,
                           !.hasStartedSpeaking = FALSE,
                           !.minimumSpeechDuration = 0])

Min(a, b) == IF a < b THEN a ELSE b
Max(a, b) == IF a > b THEN a ELSE b

\* the detector's speech callback, SpeechBurst callbacks at a time
SpeechDetected ==
  /\ ~room.left
  /\ room.detRunning
  /\ room.minimumSpeechDuration + SpeechBurst <= MaxSpeech
  /\ Commit([room EXCEPT !.hasStartedSpeaking = @ \/ ~room.detSpoke,
                         !.minimumSpeechDuration = @ + SpeechBurst,
                         !.speechHere = Min(@ + SpeechBurst, MaxSpeech)])

SubmitClick ==
  \E keepsInit \in DetectorKeepsInit :
    /\ AnswerButtons
    /\ ~room.autoSubmitted
    /\ Commit(StopListening(room, Closure(room), keepsInit))

\* the silence-check interval; a tick that does not submit only redraws
\* the countdown
SilenceCheck ==
  \E silence \in SilenceReadings, keepsInit \in DetectorKeepsInit :
    /\ SilenceIntervalActive(room)
    /\ room.detInit
    /\ Max(0, SilenceLimit - silence) = 0
    /\ ~room.autoSubmitTriggered
    /\ room.hasStartedSpeaking
    /\ room.minimumSpeechDuration >= MinSpeechCallbacks
    /\ LET q == room.currentQuestionIndex
           s == [room EXCEPT !.autoSubmitTriggered = TRUE,
                             !.autoSubmitted = TRUE,
                             !.lastAuto = [stage |-> room.stage,
                                           paused |-> room.isPaused,
                                           speech |-> room.speechHere,
                                           silence |-> silence],
                             !.autoQs = @ \cup ({q} \cap Questions),
                             !.autoTwice = @ \cup (room.autoQs \cap {q})]
       IN Commit(StopListening(s, Closure(room), keepsInit))

CanEnd ==
  /\ Pending(room) < MaxPending
  /\ room.events < MaxEvents

SkipClick ==
  \E keepsInit \in DetectorKeepsInit :
    /\ AnswerButtons
    /\ ~room.isSkipping
    /\ room.events < MaxEvents
    /\ LET s == StopDetector(StopRecorder([room EXCEPT !.isSkipping = TRUE,
                                                       !.events = @ + 1,
                                                       !.recognizing = FALSE]),
                             keepsInit)
       IN Commit(IF s.session /\ HasQuestion(s, s.currentQuestionIndex)
                 THEN Spawn(s, "skipSave", Closure(room))
                 ELSE Spawn(s, "skipTimer", Closure(room)))

SkipSaved ==
  \E t \in TasksOf(room, "skipSave"), ok \in SkipOutcomes :
    LET s == Retire(room, t)
    IN Commit(Spawn([s EXCEPT !.responses[t.idx] = IF ok THEN @ + 1 ELSE @],
                    "skipTimer", t))

SkipTimer ==
  \E t \in TasksOf(room, "skipTimer") :
    Commit(MoveToNextQuestion([Retire(room, t) EXCEPT !.isSkipping = FALSE], t))

ProcessAnswerDone ==
  \E t \in TasksOf(room, "processAnswer"),
     outcome \in AnswerOutcomes :
    LET s == Retire(room, t)
    IN Commit(IF outcome = "throws"
              THEN MoveToNextQuestion(s, t)
              ELSE Spawn([s EXCEPT !.responses[t.idx] =
                                      IF outcome = "saved" THEN @ + 1 ELSE @,
                                   !.stage = "feedback"], "feedbackTimer", t))

FeedbackTimer ==
  \E t \in TasksOf(room, "feedbackTimer") :
    Commit(MoveToNextQuestion(Retire(room, t), t))

CompleteInterviewDone ==
  \E t \in TasksOf(room, "complete"), ok \in BOOLEAN, stopThrows \in BOOLEAN :
    LET s == Retire(room, t)
    IN Commit(IF ok
              THEN OnInterviewComplete(
                     [s EXCEPT !.sessionStatus = "completed",
                               !.sessionVio = t.vio,
                               !.statusLog = Append(@, "completed"),
                               !.isFullScreen = FALSE], stopThrows)
              ELSE s)

CountdownTick ==
  \E confirmed \in BOOLEAN :
    /\ TimerIntervalActive(room)
    /\ IF room.timeRemaining <= 1
       THEN /\ confirmed => CanEnd
            /\ Commit(HandleEndInterview(
                        [room EXCEPT !.timeRemaining = 0,
                                     !.events = IF confirmed THEN @ + 1 ELSE @],
                        confirmed))
       ELSE /\ confirmed
            /\ Commit([room EXCEPT !.timeRemaining = @ - 1])

PauseClick ==
    /\ InRoom
    /\ room.events < MaxEvents
    /\ Commit(IF room.isPaused
              THEN HandleResumeInterview(Event(room))
              ELSE HandlePauseInterview(Event(room)))

ReturnToInterviewClick ==
    /\ InRoom
    /\ room.showViolationWarning
    /\ Commit(HandleResumeInterview(room))

\* useTabSwitchDetector / useFullScreenMonitor report a violation
Violation ==
  \E kind \in ViolationKinds :
    /\ ~room.left
    /\ room.events < MaxEvents
    /\ kind = "fullscreen" => room.isFullScreen
    /\ LET s == IF kind = "tab"
                THEN [room EXCEPT !.vio.tab = @ + 1, !.vio.away = @ + 1]
                ELSE [room EXCEPT !.vio.fs = @ + 1, !.isFullScreen = FALSE]
       IN Commit(HandlePauseInterview([Event(s) EXCEPT !.showViolationWarning = TRUE]))

EndClick ==
  \E confirmed \in BOOLEAN :
    /\ InRoom
    /\ confirmed => CanEnd
    /\ Commit(HandleEndInterview(IF confirmed THEN Event(room) ELSE room, confirmed))

EndInterviewResumed ==
  \E t \in TasksOf(room, "endInterview"), ok \in BOOLEAN, stopThrows \in BOOLEAN :
    LET s == Retire(room, t)
    IN Commit(IF ok
              THEN EndFinish([s EXCEPT !.sessionStatus = "abandoned",
                                       !.statusLog = Append(@, "abandoned")],
                             stopThrows)
              ELSE s)

RoomNext ==
  \/ CreateSessionDone
  \/ LoadQuestionsDone
  \/ RequestMediaPermissionsDone
  \/ StartQuestionClick
  \/ StartQuestion
  \/ StartListening
  \/ StartListeningResumed
  \/ SpeechDetected
  \/ SubmitClick
  \/ SilenceCheck
  \/ SkipClick
  \/ SkipSaved
  \/ SkipTimer
  \/ ProcessAnswerDone
  \/ FeedbackTimer
  \/ CompleteInterviewDone
  \/ CountdownTick
  \/ PauseClick
  \/ ReturnToInterviewClick
  \/ Violation
  \/ EndClick
  \/ EndInterviewResumed


(***************************************************************************)
(* Properties                                                              *)
(***************************************************************************)
Pow2(n) == 2 ^ n

\* C2: for every (user, lower-cased coupon) at most one payment_transactions
\* row with status pending or success exists, whatever the interleaving of
\* create-order invocations.
C2_CouponOncePerUser ==
  \A t1, t2 \in paymentTx :
    ( /\ t1.coupon # ""
      /\ t1.user = t2.user
      /\ t1.coupon = t2.coupon
      /\ t1.status \in {"pending", "success"}
      /\ t2.status \in {"pending", "success"} ) => t1 = t2

\* C3: safeFetch calls fetch at most MAX_RETRIES times, every re-send comes
\* after exactly one more wait, the k-th wait is INITIAL_RETRY_DELAY_MS *
\* 2^(k-1), and with the budget used up it has thrown (and sends no more).
C3_BoundedBackoff ==
  /\ sfFetches <= MAX_RETRIES
  /\ Len(sfWaits) < MAX_RETRIES
  /\ \A k \in 1 .. Len(sfWaits) :
       sfWaits[k] = INITIAL_RETRY_DELAY_MS * Pow2(k - 1)
  /\ (sfPc = "fetching" => Len(sfWaits) = sfFetches - 1)
  /\ (sfPc = "waiting" => Len(sfWaits) = sfFetches)
  /\ (retries >= MAX_RETRIES => sfPc = "thrown")

SfTransient(r) ==
  \/ r.kind = "http" /\ SfIsRetryStatus(r.status)
  \/ r.kind = "reject" /\ r.netText

\* Three transient failures in a row: three fetches, waits of 1000 and
\* 2000 ms, then the throw.
C3_Witness ==
  /\ sfPc = "thrown"
  /\ sfFetches = 3
  /\ sfWaits = <<1000, 2000>>
  /\ \A k \in 1 .. Len(sfLog) : SfTransient(sfLog[k])
  /\ \E k \in 1 .. Len(sfLog) : sfLog[k].kind = "reject"
  /\ \E k \in 1 .. Len(sfLog) : sfLog[k].kind = "http"

LiSurfaced(r) ==
  /\ r.kind = "http"
  /\ \/ r.status # 200 /\ ~LiIsRetryStatus(r.status)
     \/ r.status = 200 /\ r.body \in {"noContent", "badJson"}

\* C4: in optimizeLinkedInProfile a 401, any other 4xx, a completion with no
\* content or with invalid JSON is the last request made: the function has
\* thrown and no backoff wait follows it.
C4_OnlyTransientResent ==
  \A k \in 1 .. Len(liLog) :
    LiSurfaced(liLog[k]) =>
      /\ k = Len(liLog)
      /\ liPc = "thrown"
      /\ Len(liWaits) = k - 1

\* C5: a response of safeFetch with a status below 500 other than 429 (and
\* not ok) is the last fetch made: safeFetch has thrown and no wait follows
\* it, whatever the error body says.
C5_ClientErrorThrowsAtOnce ==
  \A k \in 1 .. Len(sfLog) :
    ( /\ sfLog[k].kind = "http"
      /\ ~SfOk(sfLog[k])
      /\ ~SfIsRetryStatus(sfLog[k].status) ) =>
      /\ k = Len(sfLog)
      /\ sfPc = "thrown"
      /\ Len(sfWaits) = k - 1

\* C6: optimizeLinkedInProfile sends at most 3 requests, its waits double
\* from 1000 ms, and once it has returned or thrown it has waited fewer
\* times than it has sent requests.
C6_BoundedNoTrailingWait ==
  /\ liFetches <= LiMaxRetries
  /\ \A k \in 1 .. Len(liWaits) : liWaits[k] = LiInitialDelay * Pow2(k - 1)
  /\ (liPc \in {"returned", "thrown"} => Len(liWaits) < liFetches)

----------------------------------------------------------------------------
\* ---- MockInterviewRoom ----
StageSteps ==
  {<<"loading", "ready">>, <<"ready", "question">>}
  \cup {<<a, b>> \in (Stages \ {"loading", "ready"}) \X {"question", "listening",
                                                        "feedback", "completed"} :
          a # b}
  \cup {<<"listening", "processing">>}
SpecStageSteps ==
  {<<"loading", "ready">>, <<"ready", "question">>, <<"question", "listening">>,
   <<"listening", "processing">>, <<"processing", "feedback">>,
   <<"feedback", "question">>, <<"feedback", "completed">>}

\* C1 (as stated): the stage only ever moves loading -> ready -> question ->
\* listening -> processing -> feedback, and from feedback to question or to
\* completed.
C1_StageOrderAsStated ==
  [][room'.stage # room.stage => <<room.stage, room'.stage>> \in SpecStageSteps]_vars

\* C1 (amended): the stage leaves loading only for ready and ready only for
\* question, never comes back to either, and enters processing only from
\* listening; a skip, a pause or resume, a violation or a confirmed End does
\* not change the stage in its own step.  Between question, listening,
\* feedback and completed no order holds: Skip and a failed processing move
\* on without feedback, and timers that are never cancelled set the stage
\* late.
C1_StageSteps ==
  [][/\ room'.stage # room.stage => <<room.stage, room'.stage>> \in StageSteps
     /\ room'.events # room.events => room'.stage = room.stage]_vars

C1_Witness ==
  /\ room.stage = "completed"
  /\ room.events > 0
  /\ room.currentQuestionIndex >= NumQuestions - 1
  /\ ~room.left

\* C7: an auto-submit fires only in stage listening, not paused, after at
\* least 3 s of speech on the question being listened to and at least 10 s
\* of silence, and at most once for a question.
C7_AutoSubmitGuarded ==
  /\ room.lastAuto # NoAutoSubmit =>
       /\ room.lastAuto.stage = "listening"
       /\ ~room.lastAuto.paused
       /\ room.lastAuto.speech >= MinSpeechCallbacks
       /\ room.lastAuto.silence >= SilenceLimit
  /\ room.autoTwice = {}

\* C8: the room does not rest in processing: while the stage is processing
\* some continuation is pending that will move it on.
C8_ProcessingIsLeft ==
  (room.stage = "processing" /\ ~room.left) => room.tasks # EmptyBag

EndInterviewDone(s) ==
  /\ s.sessionStatus = "abandoned"
  /\ s.mediaRecorder # "recording"
  /\ s.videoStream # "live"
  /\ ~TimerIntervalActive(s)
  /\ ~SilenceIntervalActive(s)
  /\ ~s.detInit /\ ~s.detRunning
  /\ ~s.recognizing
  /\ ~s.isFullScreen
  /\ s.onBackCalls > 0

\* C9: once a confirmed End Interview has marked the session abandoned, the
\* same handler has stopped recorder, tracks, intervals, detector and
\* recognition, left full screen and called onBack, whatever the stage.  (A
\* declined confirmation leaves the room as it is: EndClick with confirmed
\* false commits the state unchanged.)
C9_EndInterviewCompletes ==
  [][(/\ Len(room'.statusLog) > Len(room.statusLog)
      /\ room'.statusLog[Len(room'.statusLog)] = "abandoned")
     => EndInterviewDone(room')]_vars

\* C10: the violation counters written with status completed are the
\* counters as they stood when the interview completed.
C10_CountersAtCompletion ==
  room.sessionStatus = "completed" => room.sessionVio = room.vioAtCompletion

\* C11: a request carrying the DIWALI coupon that arrives after a DIWALI
\* order from the same client IP has been accepted is never answered 200.
C11_DiwaliOncePerIp ==
  \A i \in Invocations :
    ( /\ ordPc[i] = "done"
      /\ ToLowerCase(ordReq[i].coupon) = "diwali"
      /\ \E j \in ordPrior[i] : ClientIP(ordReq[j]) = ClientIP(ordReq[i]) )
    => ordResp[i].status # 200

\* C20: once a request has been answered, a Razorpay order exists for it
\* exactly if its pending payment_transactions row was inserted and the
\* answer was 200; in particular no 400 answer leaves an order behind.
C20_OrderAllOrNothing ==
  \A i \in Invocations :
    (ordPc[i] = "done" /\ ordReq[i].kind = "ok") =>
      ( (i \in rzpOrders) <=>
          ( /\ \E t \in paymentTx : t.inv = i /\ t.status = "pending"
            /\ ordResp[i].status = 200 ) )

\* C12: while the upstream fetch is pending no more than 30 s have passed
\* without the abort; a fired timer means 504 and 504 means a fired timer;
\* the timer fires only while the fetch is pending; and once the handler
\* has returned the timer is not armed any more, so no abort can follow a
\* response.
C12_AbortOrCleared ==
  /\ (pxPc = "fetching" /\ ~pxAborted) => pxClock <= TimeoutSeconds
  /\ pxPc \in {"fetching", "reading"} => pxClock <= TimeoutSeconds \/ pxTimer # "armed"
  /\ pxPc = "done" => (pxStatus = 504 <=> pxTimer = "fired")
  /\ pxPc = "reading" => pxTimer = "cleared" /\ ~pxAborted
  /\ pxPc = "done" => pxTimer # "armed"

\* The fetch stayed pending for the full 30 s, the timer fired and the
\* handler answered 504.
C12_Witness ==
  pxPc = "done" /\ pxStatus = 504 /\ pxClock = TimeoutSeconds /\ pxAborted

\* C14: no question of the session has more than one saved response row.
C14_OneResponsePerQuestion ==
  \A q \in Questions : room.responses[q] <= 1

\* getUserMedia was rejected: initialization is over and there is no stream.
MediaDenied(s) == s.stage # "loading" /\ s.videoStream = "none"

\* C13: once the getUserMedia await is over the room has left loading
\* whether or not access was granted; and in a run where it was denied no
\* MediaRecorder exists and isRecording is false, at every stage up to and
\* including completed.
C13_DeniedMediaNeverRecords ==
  /\ (~room.left /\ room.questionsLen > 0 /\ room.stage = "loading")
       => PendingOf(room, "getUserMedia") = 1
  /\ MediaDenied(room)
       => ( /\ room.mediaRecorder = "none"
            /\ ~room.orphanRecorder
            /\ ~room.isRecording
            /\ ~room.isMicrophoneEnabled )

\* Access was denied and the interview ran to its end: the first question
\* answered, the session written as completed.
C13_Witness ==
  /\ MediaDenied(room)
  /\ room.stage = "completed"
  /\ room.sessionStatus = "completed"
  /\ room.responses[0] = 1

\* C15: once the questions are loaded currentQuestionIndex points at one
\* of them.
C15_IndexInRange ==
  room.questionsLen > 0 => room.currentQuestionIndex \in 0 .. room.questionsLen - 1

\* C16: once the interview has been started, a step taken while the
\* mounted room is and stays paused changes neither the stage nor the saved
\* responses nor currentQuestionIndex, and submits nothing automatically.
C16_PausedNoProgress ==
  [][( /\ room.isPaused /\ room'.isPaused
       /\ ~room.left
       /\ room.stage \notin {"loading", "ready"} )
     => ( /\ room'.stage = room.stage
          /\ room'.responses = room.responses
          /\ room'.currentQuestionIndex = room.currentQuestionIndex
          /\ room'.autoQs = room.autoQs )]_vars

\* C17: the session's status is written as completed or abandoned at most
\* once, and onInterviewComplete and onBack are called at most once in all.
C17_OneTerminalOutcome ==
  /\ Len(room.statusLog) <= 1
  /\ room.onBackCalls + room.onCompleteCalls <= 1

\* C18: once timeRemaining is 0 no step records an answer and no step
\* brings the stage to listening.
C18_TimeUpEndsInterview ==
  [][room.timeRemaining = 0
     => ( /\ room'.responses = room.responses
          /\ (room'.stage = "listening" => room.stage = "listening") )]_vars

\* the callbacks started with setTimeout
TimerKinds == {"listenTimer", "feedbackTimer", "skipTimer"}

\* cleanup() has run to its end and the room is unmounted
CleanedUp(s) == s.left /\ s.videoStream # "live"

\* C19: after cleanup no setTimeout callback fires and neither speech
\* recognition nor a MediaRecorder is started.
C19_NoCallbackAfterCleanup ==
  [][CleanedUp(room)
     => ( /\ \A k \in TimerKinds : PendingOf(room', k) >= PendingOf(room, k)
          /\ (room'.recognizing => room.recognizing)
          /\ (room'.mediaRecorder = "recording"
                => room.mediaRecorder = "recording") )]_vars

\* C21: once the room has been left and nothing of it is pending any more,
\* a session that was created has status completed or abandoned.
C21_SessionClosed ==
  (room.left /\ room.session /\ room.tasks = EmptyBag)
    => room.sessionStatus \in {"completed", "abandoned"}

\* the answers given before the handler has acted: the body, authorization
\* and token checks and the coupon usage checks (lines 31-33, 39-48, 64-77,
\* 92-94)
OrdRejections ==
  {"missingFields", "noAuth", "badToken", "couponQueryFailed", "alreadyUsed",
   "ipClaimed"}

\* invocation i has left nothing behind at Razorpay or in the two tables
OrdNoSideEffect(i) ==
  /\ i \notin rzpOrders
  /\ \A t \in paymentTx : t.inv # i
  /\ \A u \in ipUsage : u.inv # i

\* C22: a request without planId or amount, without authorization header,
\* with a token of no user, or with a coupon that fails a usage check is
\* answered 400 with that error and has no side effect; an OPTIONS request
\* is answered 200 'ok' and has no side effect; and as long as a request is
\* being checked nothing has been done for it.
C22_RejectsBeforeActing ==
  \A i \in Invocations :
    /\ (ordPc[i] = "done" /\ ordReq[i].kind \in {"missingFields", "noAuth", "badToken"})
         => ordResp[i] = [status |-> 400, error |-> ordReq[i].kind]
    /\ (ordPc[i] = "done" /\ ordReq[i].kind = "options")
         => (ordResp[i] = [status |-> 200, error |-> "ok"] /\ OrdNoSideEffect(i))
    /\ (ordPc[i] = "done" /\ ordReq[i].kind = "ok" /\ ordReq[i].coupon # ""
           /\ i \notin rzpOrders)
         => ordResp[i].status = 400
    /\ (ordPc[i] = "done" /\ ordResp[i].error \in OrdRejections)
         => (ordResp[i].status = 400 /\ OrdNoSideEffect(i))
    /\ ordPc[i] \in {"idle", "couponCheck", "ipCheck", "razorpay"}
         => OrdNoSideEffect(i)

\* Two requests were turned away, one for its token and one for a DIWALI
\* coupon already claimed from its IP, after an order had been accepted.
C22_Witness ==
  /\ \E i \in Invocations : ordPc[i] = "done" /\ ordResp[i].error = "ipClaimed"
  /\ rzpOrders # {}

\* C23: timeRemaining starts at the configured duration; no step raises it
\* or takes it below 0; a step that changes it lowers it by exactly 1 and
\* is taken in stage listening with the interview not paused.
C23_CountdownGated ==
  /\ room.timeRemaining = InitialTime
  /\ [][/\ room'.timeRemaining <= room.timeRemaining
        /\ room'.timeRemaining >= 0
        /\ (room'.timeRemaining # room.timeRemaining)
             => ( /\ room'.timeRemaining = room.timeRemaining - 1
                  /\ room.stage = "listening"
                  /\ ~room.isPaused )]_vars

\* The countdown has run down to 0 during listening and the interview,
\* not ended, is paused there.
C23_Witness ==
  /\ room.timeRemaining = 0
  /\ room.stage = "listening"
  /\ room.isPaused
  /\ ~room.left

\* C24: a step in which a violation is counted leaves the interview paused
\* with the warning shown; the warning is never shown while the interview
\* is not paused; and a step that ends the pause takes the warning down.
C24_WarningImpliesPaused ==
  /\ [](room.showViolationWarning => room.isPaused)
  /\ [][/\ (room'.vio # room.vio)
             => (room'.isPaused /\ room'.showViolationWarning)
        /\ (room.isPaused /\ ~room'.isPaused) => ~room'.showViolationWarning]_vars

\* A violation was counted during the interview and 'Return to Interview'
\* has cleared the pause and the warning.
C24_Witness ==
  /\ room.vio # NoViolations
  /\ room.stage = "listening"
  /\ ~room.isPaused
  /\ ~room.showViolationWarning
  /\ ~room.left

\* C25: a step that ends a pause while the mounted room is in stage
\* listening leaves speech recognition running.
C25_ResumeRestartsRecognition ==
  [][( /\ ~room.left
       /\ room.stage = "listening" /\ room'.stage = "listening"
       /\ room.isPaused /\ ~room'.isPaused )
     => room'.recognizing]_vars

\* The answer the checks give in their order, for a finished run.  A run
\* whose upstream call was aborted by the timer is left to the 504 of the
\* timeout, and an upstream body that is not JSON counts as a failure
\* whatever the upstream status.
PxExpected ==
  CASE pxReq.method = "OPTIONS" -> 204
    [] pxReq.method # "POST" -> 405
    [] ~pxReq.apiKey -> 500
    [] pxReq.body = "badJson" -> 502
    [] pxReq.body \in {"noMessages", "nullJson"} -> 400
    [] pxTimer = "fired" -> 504
    [] pxUpstream.kind = "networkError" -> 502
    [] ~pxUpstream.json -> 502
    [] PxOk(pxUpstream.status) -> 200
    [] OTHER -> pxUpstream.status

\* C26: every finished run has answered with the status the checks give in
\* their order (OPTIONS 204, other non-POST 405, no key 500, no messages
\* array 400, upstream status relayed, success 200, other failures 502),
\* and the upstream is contacted only for a POST with a key and a messages
\* array.
C26_FixedOrderOfChecks ==
  /\ pxPc = "done" => pxStatus = PxExpected
  /\ pxTimer # "none"
       => (pxReq.method = "POST" /\ pxReq.apiKey /\ pxReq.body = "ok")



\* C28: when interview initialization fails (createSession throws, the
\* question query throws or returns no questions) the failure is alerted and
\* onBack is called, and from then on the stage stays loading, nothing is
\* pending and no question is asked or answered.
InitStepFails ==
  \/ /\ PendingOf(room', "createSession") < PendingOf(room, "createSession")
     /\ PendingOf(room', "loadQuestions") = PendingOf(room, "loadQuestions")
  \/ /\ PendingOf(room', "loadQuestions") < PendingOf(room, "loadQuestions")
     /\ PendingOf(room', "getUserMedia") = PendingOf(room, "getUserMedia")

C28_InitFailureLeavesRoom ==
  /\ [](room.initAlert =>
          ( /\ room.onBackCalls = 1
            /\ room.left
            /\ room.stage = "loading"
            /\ room.tasks = EmptyBag
            /\ room.currentQuestionIndex = 0
            /\ \A q \in Questions : room.responses[q] = 0 ))
  /\ [][/\ InitStepFails => room'.initAlert
        /\ room.initAlert => room'.initAlert]_vars

C28_Witness ==
  /\ room.initAlert /\ room.session /\ room.questionsLen = 0
  /\ room.onBackCalls = 1 /\ room.stage = "loading"

----------------------------------------------------------------------------
(***************************************************************************)
(* LinkedInProfileOptimizer (src/src/components/LinkedInProfileOptimizer   *)
(* .tsx): handleOptimizeProfile and the effect that retries an interrupted *)
(* optimization.  userSubscription is a prop: a snapshot of the credits on *)
(* the server that refreshUserSubscription renews; a run of the handler    *)
(* works on the snapshot of the render that created it.                    *)
(***************************************************************************)
MaxRuns == 2
MaxCredits == 1
MaxCreditEvents == 1

Runs == 1 .. MaxRuns
\* a run of handleOptimizeProfile: where it is, the userSubscription of its
\* closure, the credits on the server when it was called and when its
\* refresh resolved
NoRun == [pc |-> "idle", capHas |-> FALSE, capLeft |-> 0,
          asked |-> 0 - 1, fresh |-> 0 - 1]

\* (userSubscription?.linkedinOptimizationsTotal || 0) -
\* (userSubscription?.linkedinOptimizationsUsed || 0)
CreditsLeft(has, left) == IF has THEN left ELSE 0

\* !userSubscription || creditsLeft <= 0
Gated(has, left) == ~has \/ CreditsLeft(has, left) <= 0

OptInit ==
  optimizer = [mounted |-> FALSE, isAuthenticated |-> FALSE,
               hasSubscription |-> FALSE, serverLeft |-> 0, propLeft |-> 0,
               isOptimizing |-> FALSE, optimizationInterrupted |-> FALSE,
               run |-> [r \in Runs |-> NoRun],
               generated |-> 0, useCalls |-> 0, events |-> 0]

OptCommit(o) ==
  /\ optimizer' = o
  /\ UNCHANGED <<sfVars, liVars, ordVars, pxVars, room>>

\* refreshUserSubscription(): the parent fetches the subscription and
\* passes it down again
Refreshed(o) == [o EXCEPT !.propLeft = o.serverLeft]

OptIdle(o) == {r \in Runs : o.run[r].pc = "idle"}
OptFinish(o, r, outcome) == [o EXCEPT !.run[r].pc = outcome]

\* The component is mounted with its props.
OptMount ==
  \E auth \in BOOLEAN, has \in BOOLEAN, left \in 0 .. MaxCredits :
    /\ ~optimizer.mounted
    /\ OptCommit([optimizer EXCEPT !.mounted = TRUE, !.isAuthenticated = auth,
                                   !.hasSubscription = has,
                                   !.serverLeft = IF has THEN left ELSE 0,
                                   !.propLeft = IF has THEN left ELSE 0])

\* handleOptimizeProfile up to its first await (lines 198-210), called by
\* the Optimize button (disabled while isOptimizing) or through
\* toolProcessTrigger (lines 266-271)
HandleOptimizeProfile(o, r, snapshotLeft) ==
  IF ~o.isAuthenticated THEN OptFinish(o, r, "authRequired")
  ELSE [o EXCEPT !.run[r] = [pc |-> "refreshing", capHas |-> o.hasSubscription,
                             capLeft |-> snapshotLeft,
                             asked |-> o.serverLeft, fresh |-> 0 - 1]]

OptimizeClick ==
  \E r \in OptIdle(optimizer), viaButton \in BOOLEAN :
    /\ optimizer.mounted
    /\ r = CHOOSE x \in OptIdle(optimizer) : \A y \in OptIdle(optimizer) : x <= y
    /\ viaButton => ~optimizer.isOptimizing
    /\ OptCommit(HandleOptimizeProfile(optimizer, r, optimizer.propLeft))

\* Lines 210-236: the refresh has resolved; the credits test on the
\* captured userSubscription; the form data test; setIsOptimizing(true)
OptRefreshDone ==
  \E r \in Runs, formComplete \in BOOLEAN :
    /\ optimizer.run[r].pc = "refreshing"
    /\ LET o == [Refreshed(optimizer) EXCEPT !.run[r].fresh = optimizer.serverLeft]
           c == o.run[r]
       IN OptCommit(IF Gated(c.capHas, c.capLeft)
                      THEN OptFinish([o EXCEPT !.optimizationInterrupted = TRUE],
                                     r, "gated")
                    ELSE IF ~formComplete
                      THEN OptFinish(o, r, "missingInformation")
                    ELSE [o EXCEPT !.isOptimizing = TRUE,
                                   !.run[r].pc = "generating"])

\* Lines 237-262: generateLinkedInProfileOptimization settles
OptGenerateDone ==
  \E r \in Runs, ok \in BOOLEAN :
    /\ optimizer.run[r].pc = "generating"
    /\ OptCommit(IF ok
                 THEN [optimizer EXCEPT !.generated = @ + 1,
                                        !.run[r].pc = "using"]
                 ELSE OptFinish([optimizer EXCEPT !.isOptimizing = FALSE],
                                r, "failed"))

\* Lines 241-262: paymentService.useLinkedInOptimization settles; the
\* service records the use when a credit is left
OptUseDone ==
  \E r \in Runs, success \in BOOLEAN :
    /\ optimizer.run[r].pc = "using"
    /\ success => optimizer.serverLeft > 0
    /\ LET o == [optimizer EXCEPT !.useCalls = @ + 1]
       IN OptCommit(IF success
                    THEN [o EXCEPT !.serverLeft = @ - 1,
                                   !.run[r].pc = "refreshingAfter"]
                    ELSE OptFinish([o EXCEPT !.isOptimizing = FALSE],
                                   r, "unrecorded"))

\* Lines 244 and 260-262: the second refresh resolves; finally
OptRefreshAfterDone ==
  \E r \in Runs :
    /\ optimizer.run[r].pc = "refreshingAfter"
    /\ OptCommit(OptFinish([Refreshed(optimizer) EXCEPT !.isOptimizing = FALSE],
                           r, "recorded"))

\* The credits change on the server without this component: one is used
\* on another device, or one is bought.
CreditsChangeElsewhere ==
  \E d \in {0 - 1, 1} :
    /\ optimizer.mounted /\ optimizer.hasSubscription
    /\ optimizer.events < MaxCreditEvents
    /\ optimizer.serverLeft + d \in 0 .. MaxCredits
    /\ OptCommit([optimizer EXCEPT !.serverLeft = @ + d, !.events = @ + 1])

\* Lines 273-283: the effect of an interrupted optimization refreshes the
\* subscription and, when its own snapshot shows credits, calls
\* handleOptimizeProfile again
OptimizationInterruptedEffect ==
  /\ optimizer.mounted
  /\ optimizer.optimizationInterrupted /\ optimizer.hasSubscription
  /\ IF optimizer.propLeft > 0
       THEN \E r \in OptIdle(optimizer) :
              /\ r = CHOOSE x \in OptIdle(optimizer) :
                       \A y \in OptIdle(optimizer) : x <= y
              /\ OptCommit(HandleOptimizeProfile(
                             [Refreshed(optimizer) EXCEPT
                                !.optimizationInterrupted = FALSE],
                             r, optimizer.propLeft))
       ELSE /\ optimizer.propLeft # optimizer.serverLeft
            /\ OptCommit(Refreshed(optimizer))

OptNext ==
  \/ OptMount
  \/ OptimizeClick
  \/ OptRefreshDone
  \/ OptGenerateDone
  \/ OptUseDone
  \/ OptRefreshAfterDone
  \/ CreditsChangeElsewhere
  \/ OptimizationInterruptedEffect

\* C27: an optimization is generated only for an authenticated user whose
\* subscription has credits left at the time of the request (when the
\* handler is called, or when its refresh resolves); useLinkedInOptimization is called exactly
\* once per generated optimization and never for a gated or failed one;
\* isOptimizing is false whenever no run of handleOptimizeProfile is under
\* way.
OptGeneratedBy(r) ==
  optimizer.run[r].pc \in {"using", "refreshingAfter", "recorded", "unrecorded"}
OptUseCalledBy(r) ==
  optimizer.run[r].pc \in {"refreshingAfter", "recorded", "unrecorded"}
OptUnderWay(r) ==
  optimizer.run[r].pc \in {"refreshing", "generating", "using", "refreshingAfter"}

C27_CreditsGatedAndCounted ==
  /\ \A r \in Runs :
       (optimizer.run[r].pc = "generating" \/ OptGeneratedBy(r))
         => ( /\ optimizer.isAuthenticated
              /\ optimizer.run[r].asked > 0 \/ optimizer.run[r].fresh > 0 )
  /\ optimizer.generated = Cardinality({r \in Runs : OptGeneratedBy(r)})
  /\ optimizer.useCalls = Cardinality({r \in Runs : OptUseCalledBy(r)})
  /\ (\A r \in Runs : ~OptUnderWay(r)) => ~optimizer.isOptimizing


(***************************************************************************)
(* Specifications                                                          *)
(***************************************************************************)
Init == SfInit /\ LiInit /\ OrdInit /\ PxInit /\ RoomInit /\ OptInit

SpecFetch == Init /\ [][SfNext]_vars
SpecLinkedIn == Init /\ [][LiNext]_vars
SpecOrder == Init /\ [][OrdNext]_vars
SpecProxy == Init /\ [][PxNext]_vars
SpecRoom == Init /\ [][RoomNext]_vars
SpecOptimizer == Init /\ [][OptNext]_vars

====
